---- MODULE Spec2Model ----
(***************************************************************************)
(* Model of bentoml/_internal/store.py: the Store engine (list, get,       *)
(* register, delete) over a hierarchical filesystem.                       *)
(*                                                                         *)
(* Strings are sequences of one-character strings, so that prefix          *)
(* matching, string ordering and Python's list += str are computed and     *)
(* not assumed.                                                            *)
(***************************************************************************)
EXTENDS Integers, Sequences, FiniteSets, TLC

\* ------------------------------------------------------------------ bounds
\* creation times reported by items range over 1..MaxTime
MaxTime == 2
\* number of state-changing calls (register entry, release, delete) in a run
MaxOps == 5
\* number of register scopes that may be open at once
MaxOpen == 2

\* ----------------------------------------------------------------- strings
Alphabet == <<"0", "1", "2", "a", "d", "e", "l", "m", "o", "s", "t">>

Rank(c) == CHOOSE i \in 1..Len(Alphabet) : Alphabet[i] = c

RECURSIVE StrLess(_, _)
StrLess(a, b) ==
    IF b = <<>> THEN FALSE
    ELSE IF a = <<>> THEN TRUE
    ELSE IF Head(a) = Head(b) THEN StrLess(Tail(a), Tail(b))
    ELSE Rank(Head(a)) < Rank(Head(b))

StartsWith(s, p) == Len(p) <= Len(s) /\ SubSeq(s, 1, Len(p)) = p

Demo == <<"d", "e", "m", "o">>
Names == {Demo, <<"1">>}
Versions == {<<"1">>, <<"2">>, <<"1", "0">>, <<"1", "1">>}

\* the reserved version token and the two "absent" markers
Latest == <<"l", "a", "t", "e", "s", "t">>
NoVersion == <<"<None>">>
NoFile == <<"<no file>">>

Times == 1..MaxTime

\* --------------------------------------------------------------------- Tag
Tag(n, v) == [name |-> n, version |-> v]

TagPath(tag) ==
    IF tag.version = NoVersion THEN <<tag.name>> ELSE <<tag.name, tag.version>>

\* the order of tags: by name, then by version string
TagLess(a, b) ==
    IF a.name = b.name THEN StrLess(a.version, b.version)
    ELSE StrLess(a.name, b.name)

\* sorted() over the tags of name n with versions S, as their version strings
RECURSIVE SortedVersions(_, _)
SortedVersions(n, S) ==
    IF S = {} THEN <<>>
    ELSE LET m == CHOOSE x \in S : \A y \in S \ {x} : TagLess(Tag(n, x), Tag(n, y))
         IN <<m>> \o SortedVersions(n, S \ {m})

\* the same list in descending order
RECURSIVE SortedVersionsDescending(_, _)
SortedVersionsDescending(n, S) ==
    IF S = {} THEN <<>>
    ELSE LET m == CHOOSE x \in S : \A y \in S \ {x} : TagLess(Tag(n, y), Tag(n, x))
         IN <<m>> \o SortedVersionsDescending(n, S \ {m})

\* the versions registered under each name
VersionsOf(n) == IF n = Demo THEN Versions ELSE {<<"1">>}
RegTags == {Tag(n, v) : n \in Names, v \in Versions}
Registrable == {t \in RegTags : t.version \in VersionsOf(t.name)}
DelTags == RegTags \cup {Tag(n, NoVersion) : n \in Names}
GetTags == DelTags \cup {Tag(n, Latest) : n \in Names}

\* ------------------------------------------------------------- filesystem
\* fs.dirs   : the directories, as paths <<name>> and <<name, version>>
\* fs.latest : per name, the text of the file name/latest, or NoFile
\* fs.item   : per version directory, what the caller's body wrote there:
\*             0 while nothing is written, else the creation time of the item
EmptyFs ==
    [dirs |-> {},
     latest |-> [n \in Names |-> NoFile],
     item |-> [t \in Registrable |-> 0]]

IsDir(f, path) == path \in f.dirs

IsFile(f, path) ==
    /\ Len(path) = 2
    /\ path[2] = Latest
    /\ path[1] \in Names
    /\ f.latest[path[1]] # NoFile

Exists(f, path) == IsDir(f, path) \/ IsFile(f, path)

\* names of the subdirectories of name n
ScanDirs(f, n) == {v \in Versions : <<n, v>> \in f.dirs}

ListRoot(f) == {n \in Names : <<n>> \in f.dirs}

\* directories matched by the glob pattern "<name>/<version>*/"
GlobDirs(f, n, v) == {w \in ScanDirs(f, n) : StartsWith(w, v)}

MakeDirs(f, tag) ==
    [f EXCEPT !.dirs = @ \cup {<<tag.name>>, <<tag.name, tag.version>>}]

\* the caller's body writing the item into its version directory
Populate(f, tag, ct) ==
    IF IsDir(f, TagPath(tag)) THEN [f EXCEPT !.item[tag] = ct] ELSE f

WriteText(f, n, text) == [f EXCEPT !.latest[n] = text]

\* removetree that matches a version directory by its last component alone
RemoveTreeAnyName(f, path) ==
    LET gone(d) == IF Len(path) = 2 THEN Len(d) = 2 /\ d[2] = path[2]
                   ELSE StartsWith(d, path)
    IN [dirs |-> {d \in f.dirs : ~gone(d)},
        latest |-> [n \in Names |->
                       IF path = <<n>> THEN NoFile ELSE f.latest[n]],
        item |-> [t \in Registrable |->
                       IF gone(<<t.name, t.version>>) THEN 0 ELSE f.item[t]]]

RemoveTree(f, path) ==
    [dirs |-> {d \in f.dirs : ~StartsWith(d, path)},
     latest |-> [n \in Names |->
                    IF path = <<n>> THEN NoFile ELSE f.latest[n]],
     item |-> [t \in Registrable |->
                    IF StartsWith(<<t.name, t.version>>, path) THEN 0
                    ELSE f.item[t]]]

\* ------------------------------------------------------------------ results
R(kind, items, vers) == [kind |-> kind, items |-> items, vers |-> vers]
Err(kind) == R(kind, <<>>, <<>>)

\* the two uses of BentoMLException, told apart by their message
AlreadyExists == "BentoMLException: already exists in the store"
AmbiguousVersion == "BentoMLException: multiple versions matched"

\* Store._get_item: the item type's from_fs on the version directory
GetItem(f, tag) == [tag |-> tag, creation_time |-> f.item[tag]]

\* ---------------------------------------------------------------- Store.list
\* list that returns the versions of a name in descending order
ListTagDescending(f, tag) ==
    IF tag.version = NoVersion
    THEN IF ~IsDir(f, <<tag.name>>)
         THEN Err("ResourceNotFound")
         ELSE LET tags == SortedVersionsDescending(tag.name, ScanDirs(f, tag.name))
              IN R("ok",
                   [i \in 1..Len(tags) |-> GetItem(f, Tag(tag.name, tags[i]))],
                   <<>>)
    ELSE IF IsDir(f, TagPath(tag))
         THEN R("ok", <<GetItem(f, tag)>>, <<>>)
         ELSE R("ok", <<>>, <<>>)

ListTag(f, tag) ==
    IF tag.version = NoVersion
    THEN IF ~IsDir(f, <<tag.name>>)
         THEN Err("ResourceNotFound")
         ELSE LET tags == SortedVersions(tag.name, ScanDirs(f, tag.name))
              IN R("ok",
                   [i \in 1..Len(tags) |-> GetItem(f, Tag(tag.name, tags[i]))],
                   <<>>)
    ELSE IF IsDir(f, TagPath(tag))
         THEN R("ok", <<GetItem(f, tag)>>, <<>>)
         ELSE R("ok", <<>>, <<>>)

RECURSIVE ListNames(_, _)
ListNames(f, S) ==
    IF S = {} THEN <<>>
    ELSE LET m == CHOOSE x \in S : \A y \in S \ {x} : StrLess(x, y)
         IN ListTag(f, Tag(m, NoVersion)).items \o ListNames(f, S \ {m})

ListAll(f) == R("ok", ListNames(f, ListRoot(f)), <<>>)

\* ----------------------------------------------------------------- Store.get
\* the orders in which the backend may enumerate a set of matches
RECURSIVE Orders(_)
Orders(S) ==
    IF S = {} THEN {<<>>}
    ELSE UNION {{<<x>> \o s : s \in Orders(S \ {x})} : x \in S}

\* Python's  vers += name  for each match: the list is extended by the
\* characters of the name, each a string of length one
RECURSIVE Chars(_)
Chars(s) == IF s = <<>> THEN <<>> ELSE <<<<Head(s)>>>> \o Chars(Tail(s))

RECURSIVE ExtendAll(_)
ExtendAll(order) ==
    IF order = <<>> THEN <<>> ELSE Chars(Head(order)) \o ExtendAll(Tail(order))

\* the version get works with: the pointer's text, or the requested version
WorkingVersion(f, tag) ==
    IF tag.version = NoVersion \/ tag.version = Latest
    THEN f.latest[tag.name]
    ELSE tag.version

GetMatches(f, tag) ==
    IF WorkingVersion(f, tag) = NoFile THEN {}
    ELSE GlobDirs(f, tag.name, WorkingVersion(f, tag))

\* get without the exact-match test of lines 94-96
GetPrefixOnly(f, tag, order) ==
    LET ver == WorkingVersion(f, tag)
        matches == GetMatches(f, tag)
    IN  IF ver = NoFile THEN Err("NotFound")
        ELSE IF Cardinality(matches) = 0 THEN Err("NotFound")
        ELSE IF Cardinality(matches) = 1
             THEN R("ok", <<GetItem(f, Tag(tag.name, CHOOSE w \in matches : TRUE))>>, <<>>)
        ELSE R(AmbiguousVersion, <<>>, ExtendAll(order))

\* get whose exact-match test applies only to a version read from the pointer
GetExactForLatestOnly(f, tag, order) ==
    LET ver == WorkingVersion(f, tag)
        wtag == Tag(tag.name, ver)
        matches == GetMatches(f, tag)
    IN  IF ver = NoFile THEN Err("NotFound")
        ELSE IF ver # tag.version /\ Exists(f, TagPath(wtag))
             THEN IF IsDir(f, TagPath(wtag))
                  THEN R("ok", <<GetItem(f, wtag)>>, <<>>)
                  ELSE Err("DirectoryExpected")
        ELSE IF Cardinality(matches) = 0 THEN Err("NotFound")
        ELSE IF Cardinality(matches) = 1
             THEN R("ok", <<GetItem(f, Tag(tag.name, CHOOSE w \in matches : TRUE))>>, <<>>)
        ELSE R(AmbiguousVersion, <<>>, ExtendAll(order))

\* get that builds the item of a single prefix match from the requested tag
GetKeepsRequestedTag(f, tag, order) ==
    LET ver == WorkingVersion(f, tag)
        wtag == Tag(tag.name, ver)
        matches == GetMatches(f, tag)
    IN  IF ver = NoFile THEN Err("NotFound")
        ELSE IF Exists(f, TagPath(wtag))
             THEN IF IsDir(f, TagPath(wtag))
                  THEN R("ok", <<GetItem(f, wtag)>>, <<>>)
                  ELSE Err("DirectoryExpected")
        ELSE IF Cardinality(matches) = 0 THEN Err("NotFound")
        ELSE IF Cardinality(matches) = 1
             THEN R("ok", <<[tag |-> wtag,
                             creation_time |-> f.item[Tag(tag.name, CHOOSE w \in matches : TRUE)]]>>,
                    <<>>)
        ELSE R(AmbiguousVersion, <<>>, ExtendAll(order))

\* get that returns no item, instead of raising, when nothing matches
GetNoneOnMiss(f, tag, order) ==
    LET ver == WorkingVersion(f, tag)
        wtag == Tag(tag.name, ver)
        matches == GetMatches(f, tag)
    IN  IF ver = NoFile THEN R("ok", <<>>, <<>>)
        ELSE IF Exists(f, TagPath(wtag))
             THEN IF IsDir(f, TagPath(wtag))
                  THEN R("ok", <<GetItem(f, wtag)>>, <<>>)
                  ELSE Err("DirectoryExpected")
        ELSE IF Cardinality(matches) = 0 THEN R("ok", <<>>, <<>>)
        ELSE IF Cardinality(matches) = 1
             THEN R("ok", <<GetItem(f, Tag(tag.name, CHOOSE w \in matches : TRUE))>>, <<>>)
        ELSE R(AmbiguousVersion, <<>>, ExtendAll(order))

Get(f, tag, order) ==
    LET ver == WorkingVersion(f, tag)
        wtag == Tag(tag.name, ver)
        matches == GetMatches(f, tag)
    IN  IF ver = NoFile THEN Err("NotFound")
        ELSE IF Exists(f, TagPath(wtag))
             THEN IF IsDir(f, TagPath(wtag))
                  THEN R("ok", <<GetItem(f, wtag)>>, <<>>)
                  ELSE Err("DirectoryExpected")
        ELSE IF Cardinality(matches) = 0 THEN Err("NotFound")
        ELSE IF Cardinality(matches) = 1
             THEN R("ok", <<GetItem(f, Tag(tag.name, CHOOSE w \in matches : TRUE))>>, <<>>)
        ELSE R(AmbiguousVersion, <<>>, ExtendAll(order))

\* -------------------------------------------------------------- Store.delete
RECURSIVE InsertByKey(_, _)
InsertByKey(s, x) ==
    IF s = <<>> THEN <<x>>
    ELSE IF x.creation_time < Head(s).creation_time THEN <<x>> \o s
    ELSE <<Head(s)>> \o InsertByKey(Tail(s), x)

\* sorted(versions, key=creation_time): a stable sort
RECURSIVE SortedByCreationTime(_)
SortedByCreationTime(s) ==
    IF s = <<>> THEN <<>>
    ELSE InsertByKey(SortedByCreationTime(SubSeq(s, 1, Len(s) - 1)), s[Len(s)])

\* delete that leaves the name directory when its last version is removed
DeleteFsKeepName(f, tag) ==
    IF ~IsDir(f, TagPath(tag)) THEN f
    ELSE LET f1 == RemoveTree(f, TagPath(tag))
         IN IF IsDir(f1, <<tag.name>>)
            THEN LET versions == ListTag(f1, Tag(tag.name, NoVersion)).items
                 IN IF Len(versions) = 0
                    THEN f1
                    ELSE LET new_latest == SortedByCreationTime(versions)[1]
                         IN WriteText(f1, tag.name, new_latest.tag.name)
            ELSE f1

\* delete whose removetree passes over a missing directory
DeleteFsIgnoreMissing(f, tag) ==
    LET f1 == IF IsDir(f, TagPath(tag)) THEN RemoveTree(f, TagPath(tag)) ELSE f
    IN IF IsDir(f1, <<tag.name>>)
       THEN LET versions == ListTag(f1, Tag(tag.name, NoVersion)).items
            IN IF Len(versions) = 0
               THEN RemoveTree(f1, <<tag.name>>)
               ELSE LET new_latest == SortedByCreationTime(versions)[1]
                    IN WriteText(f1, tag.name, new_latest.tag.name)
       ELSE f1

DeleteFs(f, tag) ==
    IF ~IsDir(f, TagPath(tag)) THEN f
    ELSE LET f1 == RemoveTree(f, TagPath(tag))
         IN IF IsDir(f1, <<tag.name>>)
            THEN LET versions == ListTag(f1, Tag(tag.name, NoVersion)).items
                 IN IF Len(versions) = 0
                    THEN RemoveTree(f1, <<tag.name>>)
                    ELSE LET new_latest == SortedByCreationTime(versions)[1]
                         IN WriteText(f1, tag.name, new_latest.tag.name)
            ELSE f1

DeleteResult(f, tag) ==
    IF ~IsDir(f, TagPath(tag)) THEN Err("ResourceNotFound") ELSE Err("ok")

\* ---------------------------------------------------------------- the state
VARIABLES
    fs,         \* the backend under the store's base path
    open,       \* per tag: the number of register scopes yielded and not yet released
    ret,        \* the last call and what it returned or raised (a call that
                \* changed the backend with its tag, any other by its result alone)
    clean,      \* per name: only non-overlapping register calls so far, no delete
    lastReg,    \* per name: the version of the register call that completed last
    seq,        \* no register scope was open at any register entry or delete so far
    scen,       \* progress along register demo:1, register demo:2, delete demo:2
    nops,       \* state-changing calls made so far
    checked     \* per tag: the register calls between their existence test
                \* (line 120) and their makedirs (line 124)

vars == <<fs, open, ret, clean, lastReg, seq, scen, nops, checked>>

NoTag == Tag(NoVersion, NoVersion)
Call(op, tag, res) == [op |-> op, tag |-> tag, res |-> res]

RECURSIVE SumOpen(_, _)
SumOpen(o, S) ==
    IF S = {} THEN 0
    ELSE LET t == CHOOSE x \in S : TRUE IN o[t] + SumOpen(o, S \ {t})

NumOpen == SumOpen(open, Registrable)
NumChecked == SumOpen(checked, Registrable)
OpenOn(n) == \E t \in Registrable : t.name = n /\ open[t] > 0
Quiescent == NumOpen = 0

Init ==
    /\ fs = EmptyFs
    /\ open = [t \in Registrable |-> 0]
    /\ ret = Call("init", NoTag, Err("ok"))
    /\ clean = [n \in Names |-> TRUE]
    /\ lastReg = [n \in Names |-> NoVersion]
    /\ seq = TRUE
    /\ scen = "empty"
    /\ nops = 0
    /\ checked = [t \in Registrable |-> 0]

\* the end-to-end run: register demo:1, register demo:2, delete demo:2
Demo1 == Tag(Demo, <<"1">>)
Demo2 == Tag(Demo, <<"2">>)
ScenStep(s, ev) ==
    IF s = "empty" /\ ev = <<"enter", Demo1>> THEN "in demo:1"
    ELSE IF s = "in demo:1" /\ ev = <<"normal", Demo1>> THEN "demo:1"
    ELSE IF s = "demo:1" /\ ev = <<"enter", Demo2>> THEN "in demo:2"
    ELSE IF s = "in demo:2" /\ ev = <<"normal", Demo2>> THEN "demo:1 demo:2"
    ELSE IF s = "demo:1 demo:2" /\ ev = <<"delete", Demo2>> THEN "deleted demo:2"
    ELSE "off"

\* ------------------------------------------------------------ Store.register
\* a register whose existence test sits inside the try block
RegisterFsCheckInTry(f, tag) ==
    IF Exists(f, TagPath(tag)) THEN WriteText(f, tag.name, tag.version)
    ELSE MakeDirs(f, tag)

\* a register that links latest on entry
RegisterFsLinksAtEntry(f, tag) ==
    IF Exists(f, TagPath(tag)) THEN f
    ELSE WriteText(MakeDirs(f, tag), tag.name, tag.version)

\* lines 117-126: the existence test, makedirs and the yield
RegisterFs(f, tag) ==
    IF Exists(f, TagPath(tag)) THEN f ELSE MakeDirs(f, tag)

RegisterResult(f, tag) ==
    IF Exists(f, TagPath(tag)) THEN Err(AlreadyExists) ELSE Err("yield")

RegisterEnter(tag) ==
    /\ fs' = RegisterFs(fs, tag)
    /\ ret' = Call("register",
                   IF RegisterResult(fs, tag).kind = "yield" THEN tag ELSE NoTag,
                   RegisterResult(fs, tag))
    /\ IF RegisterResult(fs, tag).kind = "yield"
       THEN /\ nops < MaxOps
            /\ NumOpen < MaxOpen
            /\ nops' = nops + 1
            /\ open' = [open EXCEPT ![tag] = @ + 1]
            /\ clean' = [clean EXCEPT ![tag.name] = @ /\ ~OpenOn(tag.name)]
            /\ seq' = (seq /\ Quiescent)
            /\ scen' = ScenStep(scen, <<"enter", tag>>)
       ELSE UNCHANGED <<open, clean, seq, scen, nops>>
    /\ UNCHANGED <<lastReg, checked>>

\* a release that links latest only when the name has no pointer yet
ReleaseFsFirstOnly(f, tag) ==
    IF IsDir(f, <<tag.name>>) /\ f.latest[tag.name] = NoFile
    THEN WriteText(f, tag.name, tag.version)
    ELSE f

\* a release that never replaces a pointer by a smaller version string
ReleaseFsHighest(f, tag) ==
    IF IsDir(f, <<tag.name>>)
       /\ (f.latest[tag.name] = NoFile \/ StrLess(f.latest[tag.name], tag.version))
    THEN WriteText(f, tag.name, tag.version)
    ELSE f

\* a release whose open() creates the latest file even without its directory
ReleaseFsAlways(f, tag) == WriteText(f, tag.name, tag.version)

\* lines 127-130: the finally block
ReleaseFs(f, tag) ==
    IF IsDir(f, <<tag.name>>) THEN WriteText(f, tag.name, tag.version) ELSE f

ReleaseResult(f, tag, outcome) ==
    IF IsDir(f, <<tag.name>>) THEN Err(outcome) ELSE Err("ResourceNotFound")

\* a release in an else block: skipped when the body raised
RegisterExitElse(tag, outcome, ct) ==
    /\ open[tag] > 0
    /\ nops < MaxOps
    /\ nops' = nops + 1
    /\ open' = [open EXCEPT ![tag] = @ - 1]
    /\ fs' = IF outcome = "normal" THEN ReleaseFs(Populate(fs, tag, ct), tag) ELSE fs
    /\ ret' = Call("release", tag, ReleaseResult(fs, tag, outcome))
    /\ lastReg' = [lastReg EXCEPT ![tag.name] = tag.version]
    /\ scen' = ScenStep(scen, <<outcome, tag>>)
    /\ UNCHANGED <<clean, seq, checked>>

\* the end of a register scope: the caller's body either wrote its item
\* (creation time ct) and completed normally, or raised; then the finally block
RegisterExit(tag, outcome, ct) ==
    /\ open[tag] > 0
    /\ nops < MaxOps
    /\ nops' = nops + 1
    /\ open' = [open EXCEPT ![tag] = @ - 1]
    /\ fs' = ReleaseFs(IF outcome = "normal" THEN Populate(fs, tag, ct) ELSE fs, tag)
    /\ ret' = Call("release", tag, ReleaseResult(fs, tag, outcome))
    /\ lastReg' = [lastReg EXCEPT ![tag.name] = tag.version]
    /\ scen' = ScenStep(scen, <<outcome, tag>>)
    /\ UNCHANGED <<clean, seq, checked>>

\* -------------------------------------------------------------- Store.delete
Delete(tag) ==
    /\ fs' = DeleteFs(fs, tag)
    /\ ret' = Call("delete",
                   IF DeleteResult(fs, tag).kind = "ok" THEN tag ELSE NoTag,
                   DeleteResult(fs, tag))
    /\ IF IsDir(fs, TagPath(tag))
       THEN /\ nops < MaxOps
            /\ nops' = nops + 1
            /\ clean' = [clean EXCEPT ![tag.name] = FALSE]
            /\ seq' = (seq /\ Quiescent)
            /\ scen' = ScenStep(scen, <<"delete", tag>>)
       ELSE UNCHANGED <<clean, seq, scen, nops>>
    /\ UNCHANGED <<open, lastReg, checked>>

\* ------------------------------------------------------------- the queries
GetCall(tag, order) ==
    /\ ret' = Call("get", NoTag, Get(fs, tag, order))
    /\ UNCHANGED <<fs, open, clean, lastReg, seq, scen, nops, checked>>

ListCall(tag) ==
    /\ ret' = Call("list", NoTag, ListTag(fs, tag))
    /\ UNCHANGED <<fs, open, clean, lastReg, seq, scen, nops, checked>>

ListAllCall ==
    /\ ret' = Call("list", NoTag, ListAll(fs))
    /\ UNCHANGED <<fs, open, clean, lastReg, seq, scen, nops, checked>>

Next ==
    \/ \E tag \in Registrable : RegisterEnter(tag)
    \/ \E tag \in Registrable : RegisterExit(tag, "raised", 0)
    \/ \E tag \in Registrable, ct \in Times : RegisterExit(tag, "normal", ct)
    \/ \E tag \in DelTags : Delete(tag)
    \/ \E tag \in GetTags : \E order \in Orders(GetMatches(fs, tag)) : GetCall(tag, order)
    \/ \E tag \in DelTags : ListCall(tag)
    \/ ListAllCall

Spec == Init /\ [][Next]_vars

\* ------------------------------------------- register, one backend call a step
\* Several callers run register at once; each backend call is one step.
\* line 124 on a directory that exists meanwhile, were makedirs given recreate=True
MakeDirsRecreate(f, tag) == Err("yield")

\* line 124: makedirs(item_path), recreate=False, raises DirectoryExists on a
\* directory that exists
MakeDirsResult(f, tag) ==
    IF IsDir(f, TagPath(tag)) THEN Err("DirectoryExists") ELSE Err("yield")

\* lines 119-123: the existence test
RegisterCheck(tag) ==
    /\ ret' = Call("register", NoTag,
                   IF Exists(fs, TagPath(tag)) THEN Err(AlreadyExists) ELSE Err("checked"))
    /\ IF Exists(fs, TagPath(tag))
       THEN UNCHANGED <<checked, nops>>
       ELSE /\ nops < MaxOps
            /\ NumOpen + NumChecked < MaxOpen
            /\ nops' = nops + 1
            /\ checked' = [checked EXCEPT ![tag] = @ + 1]
    /\ UNCHANGED <<fs, open, clean, lastReg, seq, scen>>

\* lines 124-126: makedirs and, when it succeeds, the yield
RegisterMakeDirs(tag) ==
    /\ checked[tag] > 0
    /\ checked' = [checked EXCEPT ![tag] = @ - 1]
    /\ IF MakeDirsResult(fs, tag).kind = "yield"
       THEN /\ fs' = MakeDirs(fs, tag)
            /\ ret' = Call("register", tag, Err("yield"))
            /\ open' = [open EXCEPT ![tag] = @ + 1]
            /\ clean' = [clean EXCEPT ![tag.name] = @ /\ ~OpenOn(tag.name)]
            /\ seq' = (seq /\ Quiescent)
            /\ scen' = ScenStep(scen, <<"enter", tag>>)
       ELSE /\ ret' = Call("register", NoTag, MakeDirsResult(fs, tag))
            /\ UNCHANGED <<fs, open, clean, seq, scen>>
    /\ UNCHANGED <<lastReg, nops>>

\* the tags the concurrent callers use
RaceTags == {t \in Registrable : t.version \in {<<"1">>, <<"2">>}}
RaceQueries == RaceTags \cup {Tag(n, NoVersion) : n \in Names}

NextRace ==
    \/ \E tag \in RaceTags : RegisterCheck(tag)
    \/ \E tag \in RaceTags : RegisterMakeDirs(tag)
    \/ \E tag \in RaceTags : RegisterExit(tag, "raised", 0)
    \/ \E tag \in RaceTags, ct \in Times : RegisterExit(tag, "normal", ct)
    \/ \E tag \in RaceQueries : \E order \in Orders(GetMatches(fs, tag)) : GetCall(tag, order)
    \/ \E tag \in RaceQueries : ListCall(tag)

SpecRace == Init /\ [][NextRace]_vars

\* ============================================================ properties
NameQueries(n) == {Tag(n, NoVersion), Tag(n, Latest)}
GetOrders(tag) == Orders(GetMatches(fs, tag))
Resolves(res, tag) == res.kind = "ok" /\ Len(res.items) = 1 /\ res.items[1].tag = tag
Released == ret.op = "release" /\ ret.res.kind \in {"normal", "raised"}
Deleted == ret.op = "delete" /\ ret.res.kind = "ok"

\* the remaining versions of name n whose creation time is the minimum
Oldest(f, n) ==
    {v \in ScanDirs(f, n) :
        \A w \in ScanDirs(f, n) : f.item[Tag(n, v)] <= f.item[Tag(n, w)]}

\* C1: after any sequence of completed register and delete calls, no scope
\* open, every name that has a subtree has a latest file whose text is the
\* version string of a version directory existing under that name.
C1_LatestNamesExistingVersion ==
    (seq /\ Quiescent) =>
        \A n \in Names :
            IsDir(fs, <<n>>) =>
                /\ fs.latest[n] # NoFile
                /\ IsDir(fs, <<n, fs.latest[n]>>)

\* C2: when delete removes one version and others remain (each with its item
\* written), the latest file then holds the version string of a remaining
\* version of minimum creation time.
C2_DeleteWritesOldestVersion ==
    (/\ seq
     /\ Deleted
     /\ ScanDirs(fs, ret.tag.name) # {}
     /\ \A v \in ScanDirs(fs, ret.tag.name) : fs.item[Tag(ret.tag.name, v)] > 0) =>
        fs.latest[ret.tag.name] \in Oldest(fs, ret.tag.name)

\* C3: from the empty store, register demo:1, register demo:2, delete demo:2;
\* then get("demo") returns the item demo:1.
C3_EndToEndGetsDemo1 ==
    scen = "deleted demo:2" =>
        \A order \in GetOrders(Tag(Demo, NoVersion)) :
            Resolves(Get(fs, Tag(Demo, NoVersion), order), Demo1)

\* C4: for a tag with an explicit version whose scope exited normally (its
\* item is written) and that was not deleted since, get of that tag returns
\* the item with that very tag, whatever other versions exist.
C4_GetRegisteredTag ==
    \A tag \in Registrable :
        (IsDir(fs, TagPath(tag)) /\ fs.item[tag] > 0) =>
            \A order \in GetOrders(tag) : Resolves(Get(fs, tag, order), tag)

C4_Witness ==
    /\ fs.item[Demo1] > 0
    /\ IsDir(fs, <<Demo, <<"1", "0">>>>)
    /\ IsDir(fs, <<Demo, <<"1", "1">>>>)

\* C5: register of a tag whose version directory exists raises the
\* already-exists exception and changes nothing in the backend, and opens no scope.
C5_RegisterExistingChangesNothing ==
    /\ [](\A tag \in Registrable :
            IsDir(fs, TagPath(tag)) => RegisterResult(fs, tag).kind = AlreadyExists)
    /\ [][(ret'.op = "register" /\ ret'.res.kind = AlreadyExists) =>
            (fs' = fs /\ open' = open)]_vars

C5_Witness ==
    /\ ret.op = "register"
    /\ ret.res.kind = AlreadyExists
    /\ Cardinality(ScanDirs(fs, Demo)) = 2
    /\ fs.latest[Demo] # NoFile
    /\ fs.latest[Demo] \in ScanDirs(fs, Demo)

\* C6: after non-overlapping completed register calls for a name, no delete
\* in between, get of the name without a version, or with "latest",
\* resolves to the version of the register call that completed last.
C6_GetNameResolvesLastRegistered ==
    \A n \in Names :
        (clean[n] /\ lastReg[n] # NoVersion) =>
            \A q \in NameQueries(n) : \A order \in GetOrders(q) :
                Resolves(Get(fs, q, order), Tag(n, lastReg[n]))

C6_Witness ==
    /\ clean[Demo]
    /\ lastReg[Demo] = <<"1">>
    /\ fs.item[Demo2] > 0
    /\ Released

\* C7: the release runs whether the body completed or raised: when a scope
\* whose version directory still exists ends, the latest file then holds the
\* scope's version and every directory is kept, the version directory included.
C7_ReleaseOnEveryExit ==
    [][\A tag \in Registrable :
        (open'[tag] < open[tag] /\ IsDir(fs, TagPath(tag))) =>
            /\ fs'.latest[tag.name] = tag.version
            /\ fs'.dirs = fs.dirs]_vars

\* a body that raised: latest points at a version nothing was written into
C7_Witness ==
    /\ ret.op = "release"
    /\ ret.res.kind = "raised"
    /\ fs.latest[ret.tag.name] = ret.tag.version
    /\ IsDir(fs, TagPath(ret.tag))
    /\ fs.item[ret.tag] = 0
    /\ Cardinality(ScanDirs(fs, ret.tag.name)) = 2

\* C8: get with an explicit version that names no directory and is a prefix
\* of two or more version directories raises the multiple-versions exception,
\* carrying the matching version strings, one element each.
C8_AmbiguousListsVersions ==
    \A tag \in RegTags :
        (~Exists(fs, TagPath(tag)) /\ Cardinality(GlobDirs(fs, tag.name, tag.version)) >= 2) =>
            \A order \in GetOrders(tag) :
                /\ Get(fs, tag, order).kind = AmbiguousVersion
                /\ Get(fs, tag, order).vers = order

\* C9: list of a name that has no subtree returns the empty sequence, and so
\* does list of a tag whose version directory does not exist.
C9_ListAbsentIsEmpty ==
    /\ \A n \in Names :
          ~IsDir(fs, <<n>>) => ListTag(fs, Tag(n, NoVersion)) = R("ok", <<>>, <<>>)
    /\ \A tag \in RegTags :
          ~IsDir(fs, TagPath(tag)) => ListTag(fs, tag) = R("ok", <<>>, <<>>)

\* C10: delete of the only version directory of a name removes the name's
\* subtree and its latest file, and get of the name then raises NotFound.
C10_DeleteLastVersionRemovesName ==
    [][\A tag \in RegTags :
        (ret'.op = "delete" /\ ret'.tag = tag /\ ScanDirs(fs, tag.name) = {tag.version}) =>
            /\ ~IsDir(fs', <<tag.name>>)
            /\ ScanDirs(fs', tag.name) = {}
            /\ fs'.latest[tag.name] = NoFile
            /\ \A q \in NameQueries(tag.name) : \A order \in Orders(GetMatches(fs', q)) :
                   Get(fs', q, order).kind = "NotFound"]_vars

C10_Witness ==
    /\ Deleted
    /\ ret.tag.version # NoVersion
    /\ ~IsDir(fs, <<ret.tag.name>>)
    /\ lastReg[ret.tag.name] = ret.tag.version

\* C11: get of name:v where the version directory v exists returns the item
\* of version v, whether or not its item is written yet and whatever longer
\* versions start with v; it raises nothing.
C11_ExactMatchTakesPrecedence ==
    \A tag \in RegTags :
        IsDir(fs, TagPath(tag)) =>
            \A order \in GetOrders(tag) :
                /\ Resolves(Get(fs, tag, order), tag)
                /\ Get(fs, tag, order).vers = <<>>

\* get returned demo:1 from a directory nothing is written into yet, while
\* demo:10 and demo:11 exist
C11_Witness ==
    /\ ret.op = "get"
    /\ Resolves(ret.res, Demo1)
    /\ ret.res.items[1].creation_time = 0
    /\ ScanDirs(fs, Demo) = {<<"1">>, <<"1", "0">>, <<"1", "1">>}

\* C12: get of name:v where no directory v exists and exactly one version
\* directory w starts with v returns the item of w, whose tag carries w.
C12_SinglePrefixMatchReturnsFullVersion ==
    \A tag \in RegTags : \A w \in Versions :
        (~Exists(fs, TagPath(tag)) /\ GlobDirs(fs, tag.name, tag.version) = {w}) =>
            \A order \in GetOrders(tag) :
                /\ Resolves(Get(fs, tag, order), Tag(tag.name, w))
                /\ Get(fs, tag, order).items[1] = GetItem(fs, Tag(tag.name, w))
                /\ w # tag.version

\* get returned demo:10 and "10" is the only version under demo starting
\* with "1"; demo:2 exists beside it
C12_Witness ==
    /\ ret.op = "get"
    /\ Resolves(ret.res, Tag(Demo, <<"1", "0">>))
    /\ ScanDirs(fs, Demo) = {<<"1", "0">>, <<"2">>}
    /\ fs.latest[Demo] = <<"2">>

\* C13: get of a name, or of name:latest, raises NotFound when the name has no
\* latest file; get of name:v raises NotFound exactly when no version
\* directory of the name equals v or starts with v; NotFound carries no item.
C13_NotFoundExactlyWhenAbsent ==
    /\ \A n \in Names : \A q \in NameQueries(n) :
          fs.latest[n] = NoFile =>
              \A order \in GetOrders(q) : Get(fs, q, order) = Err("NotFound")
    /\ \A tag \in RegTags : \A order \in GetOrders(tag) :
          /\ Get(fs, tag, order).kind = "NotFound" <=>
                ~\E w \in ScanDirs(fs, tag.name) : w = tag.version \/ StartsWith(w, tag.version)
          /\ Get(fs, tag, order).kind = "NotFound" => Get(fs, tag, order).items = <<>>

\* get raised NotFound in a store where demo has versions and a latest file
\* and the other name has nothing
C13_Witness ==
    /\ ret.op = "get"
    /\ ret.res = Err("NotFound")
    /\ ScanDirs(fs, Demo) = {<<"1", "0">>, <<"1", "1">>}
    /\ fs.latest[Demo] = <<"1", "1">>
    /\ fs.latest[<<"1">>] = NoFile

\* position of version v in a list result
ListedAt(res, n, v) == {i \in 1..Len(res.items) : res.items[i].tag = Tag(n, v)}

\* C14: list of a name that has a subtree returns one item per version
\* directory, in ascending version-string order; list without a filter returns
\* the lists of the names one after another, names ascending.
C14_ListOnePerVersionAscending ==
    /\ \A n \in Names :
          IsDir(fs, <<n>>) =>
              LET res == ListTag(fs, Tag(n, NoVersion))
              IN /\ res.kind = "ok"
                 /\ Len(res.items) = Cardinality(ScanDirs(fs, n))
                 /\ \A v \in ScanDirs(fs, n) : Cardinality(ListedAt(res, n, v)) = 1
                 /\ \A i \in 1..Len(res.items) : \A j \in 1..Len(res.items) :
                        i < j => StrLess(res.items[i].tag.version, res.items[j].tag.version)
    /\ LET one == IF IsDir(fs, <<<<"1">>>>)
                  THEN ListTag(fs, Tag(<<"1">>, NoVersion)).items ELSE <<>>
           demo == IF IsDir(fs, <<Demo>>)
                   THEN ListTag(fs, Tag(Demo, NoVersion)).items ELSE <<>>
       IN ListAll(fs) = R("ok", one \o demo, <<>>)

\* list without a filter returned 1:1, demo:10, demo:2 in that order
C14_Witness ==
    /\ ret.op = "list"
    /\ ret.res.kind = "ok"
    /\ Len(ret.res.items) = 3
    /\ ret.res.items[1].tag = Tag(<<"1">>, <<"1">>)
    /\ ret.res.items[2].tag = Tag(Demo, <<"1", "0">>)
    /\ ret.res.items[3].tag = Demo2

\* C15: whenever no register scope is open, a name has a subtree exactly when
\* it has at least one version directory, and a latest file exists only for a
\* name that has a version directory.
C15_NameSubtreeIffVersion ==
    Quiescent =>
        \A n \in Names :
            /\ IsDir(fs, <<n>>) <=> ScanDirs(fs, n) # {}
            /\ fs.latest[n] # NoFile => ScanDirs(fs, n) # {}

\* a scope whose name was deleted under it has ended: its release found no
\* directory to write the latest file into
C15_Witness ==
    /\ Quiescent
    /\ ret.op = "release"
    /\ ret.res.kind = "ResourceNotFound"
    /\ ~IsDir(fs, <<ret.tag.name>>)
    /\ fs.latest[ret.tag.name] = NoFile

\* C17: two scopes for different versions of one name overlap; one is
\* released, and then the other: the latest file then holds the version of
\* the scope released last, whichever of the two was entered first.
C17_LastReleasedWins ==
    [][\A tag \in Registrable :
        (/\ Released
         /\ ret.tag.name = tag.name
         /\ ret.tag # tag
         /\ open[tag] > 0
         /\ open'[tag] < open[tag]) =>
            /\ fs'.latest[tag.name] = tag.version
            /\ ret'.res.kind \in {"normal", "raised"}]_vars

\* four calls: demo:1 and demo:2 were entered one inside the other and both
\* released; the one released last is the smaller version string
C17_Witness ==
    /\ nops = 4
    /\ Released
    /\ ret.tag = Demo1
    /\ ~clean[Demo]
    /\ Quiescent
    /\ fs.item[Demo2] > 0
    /\ ScanDirs(fs, Demo) = {<<"1">>, <<"2">>}
    /\ ~IsDir(fs, <<<<"1">>>>)
    /\ fs.latest[Demo] = <<"1">>

Entered(r, tag) == r.op = "register" /\ r.res.kind = "yield" /\ r.tag = tag

\* C18: while a scope for tag T is open and its directory exists, list of the
\* name includes T and get of T returns it; entering the scope leaves every
\* latest file as it was, so get of the name resolves as before, and raises
\* NotFound when T is the first version of the name.
C18_OpenScopeVisibleNotLatest ==
    /\ [](\A tag \in Registrable :
            (open[tag] > 0 /\ IsDir(fs, TagPath(tag))) =>
                /\ ListedAt(ListTag(fs, Tag(tag.name, NoVersion)), tag.name, tag.version) # {}
                /\ ListTag(fs, tag) = R("ok", <<GetItem(fs, tag)>>, <<>>)
                /\ \A order \in GetOrders(tag) : Resolves(Get(fs, tag, order), tag))
    /\ [][\A tag \in Registrable :
            Entered(ret', tag) =>
                /\ fs'.latest = fs.latest
                /\ \A q \in NameQueries(tag.name) :
                     /\ ~IsDir(fs, <<tag.name>>) =>
                            \A order \in Orders(GetMatches(fs', q)) :
                                Get(fs', q, order) = Err("NotFound")
                     /\ (fs.latest[tag.name] # NoFile
                         /\ IsDir(fs, <<tag.name, fs.latest[tag.name]>>)) =>
                            \A order \in Orders(GetMatches(fs', q)) :
                                Resolves(Get(fs', q, order), Tag(tag.name, fs.latest[tag.name]))]_vars

\* the scope of demo:2 is open: list of demo returned demo:1 and the still
\* empty demo:2, and the latest file still reads "1"
C18_Witness ==
    /\ open[Demo2] > 0
    /\ ret.op = "list"
    /\ Len(ret.res.items) = 2
    /\ ret.res.items[1].tag = Demo1
    /\ ret.res.items[2] = [tag |-> Demo2, creation_time |-> 0]
    /\ fs.latest[Demo] = <<"1">>

\* what the backend holds for name n
NameState(f, n) ==
    [dirs |-> {d \in f.dirs : d[1] = n},
     latest |-> f.latest[n],
     item |-> [t \in {u \in Registrable : u.name = n} |-> f.item[t]]]

\* C19: a register entry, a release or a delete on a tag of one name leaves
\* the version directories, the items and the latest file of every other name
\* as they were; get and list change nothing in the backend.
C19_OtherNamesUnchanged ==
    [][/\ \A n \in Names :
            (ret'.op \in {"register", "release", "delete"} /\ ret'.tag.name # n) =>
                NameState(fs', n) = NameState(fs, n)
       /\ ret'.op \in {"get", "list"} => fs' = fs]_vars

\* demo:1 was deleted, which removed demo; the name "1" keeps its version "1"
\* and its latest file
C19_Witness ==
    /\ Deleted
    /\ ret.tag = Demo1
    /\ ~IsDir(fs, <<Demo>>)
    /\ ScanDirs(fs, <<"1">>) = {<<"1">>}
    /\ fs.latest[<<"1">>] = <<"1">>
    /\ fs.item[Tag(<<"1">>, <<"1">>)] > 0

\* C20: delete of a tag whose directory does not exist raises the backend's
\* ResourceNotFound, and the backend is then exactly as before the call.
C20_DeleteMissingChangesNothing ==
    /\ [](\A tag \in DelTags :
            ~IsDir(fs, TagPath(tag)) => DeleteResult(fs, tag) = Err("ResourceNotFound"))
    /\ [][(ret'.op = "delete" /\ ret'.res.kind = "ResourceNotFound") =>
            fs' = fs]_vars

\* a delete raised ResourceNotFound in a store where demo has two versions
\* and a latest file naming one of them
C20_Witness ==
    /\ ret.op = "delete"
    /\ ret.res.kind = "ResourceNotFound"
    /\ ScanDirs(fs, Demo) = {<<"2">>, <<"1", "0">>}
    /\ fs.latest[Demo] = <<"2">>

====
